---- MODULE Spec2Model ----
(***************************************************************************)
(* Model of vds-gen: the lazy slicing of dataset containers                *)
(* (vdsgen/group.py: DatasetContainer, VirtualSource, VirtualTarget),      *)
(* the construction of virtual maps and of the virtual dataset            *)
(* (VirtualMap, VGroup.create_virtual_dataset) and the reshaping          *)
(* generator (vdsgen/reshapevdsgenerator.py: ReshapeVDSGenerator).         *)
(*                                                                         *)
(* The code is Python 2.7 (setup.py), so "/" on integers is floor          *)
(* division.  Python values are represented as follows:                    *)
(*   - None is the integer None, h5s.UNLIMITED the integer UNLIMITED;      *)
(*   - a tuple or list is a sequence (index k of Python is k + 1 here);    *)
(*   - an entry of an index key is a record [kind, start, stop, step]      *)
(*     with kind "int" (the integer is in start), "slice" or "ellipsis";   *)
(*   - an argument of __getitem__ is [istuple, items]: v[a, b] passes the  *)
(*     tuple (a, b), v[a] passes the bare entry a;                         *)
(*   - an optional tuple is [none, val];                                   *)
(*   - a call returns [status, value], status "ok" or the exception.       *)
(***************************************************************************)
EXTENDS Integers, Sequences, FiniteSets, TLC

VARIABLES
    container,      \* SpecSlice: the DatasetContainer that is sliced
    key,            \* SpecSlice: the argument of the last __getitem__
    sliced,         \* SpecSlice: what the last __getitem__ returned or raised
    virtual_source, \* SpecMap: the source container handed to VirtualMap
    virtual_target, \* SpecMap: the target container handed to VirtualMap
    vmap,           \* SpecMap: the VirtualMap, once constructed
    dset,           \* SpecMap: what create_virtual_dataset selected
    files,          \* SpecReshape: the metadata grab_metadata returns per file
    dimensions,     \* SpecReshape: ReshapeVDSGenerator.dimensions
    alternate,      \* SpecReshape: ReshapeVDSGenerator.alternate
    total_frames,   \* SpecReshape: ReshapeVDSGenerator.total_frames
    source_meta,    \* SpecReshape: the SourceMeta process_source_datasets returned
    v_layout,       \* SpecReshape: the mappings assigned to the VirtualLayout
    frame,          \* SpecReshape: idx of the loop of create_alternating_virtual_layout
    raised,         \* SpecReshape: the exception the generator raised, or "none"
    pc              \* SpecReshape: position of the generator

vars == <<container, key, sliced, virtual_source, virtual_target, vmap, dset,
          files, dimensions, alternate, total_frames, source_meta, v_layout,
          frame, raised, pc>>

sliceVars == <<container, key, sliced>>
mapVars == <<virtual_source, virtual_target, vmap, dset>>
reshapeVars == <<files, dimensions, alternate, total_frames, source_meta,
                 v_layout, frame, raised, pc>>

(***************************************************************************)
(* Bounds of the model                                                     *)
(***************************************************************************)
MaxRank == 3       \* largest rank of a container
MaxAxis == 3       \* largest axis length of a container
MaxStep == 2       \* largest |step| of a slice
MaxKey == 4        \* longest index key
MaxDims == 3       \* largest number of axes of the reshaped dataset
MaxDim == 3        \* largest axis length of the reshaped dataset
MaxFiles == 2      \* largest number of raw files
MaxFrames == 2     \* largest frame count of a raw file besides the matching one

(***************************************************************************)
(* Python values                                                           *)
(***************************************************************************)
None == -1000
UNLIMITED == -1

Min(a, b) == IF a < b THEN a ELSE b
Max(a, b) == IF a > b THEN a ELSE b

\* all sequences over S of length lo..hi
SeqsOf(S, lo, hi) == UNION {[1..n -> S] : n \in lo..hi}

Nothing == [none |-> TRUE, val |-> <<>>]
Some(t) == [none |-> FALSE, val |-> t]

slice(start, stop, step) ==
    [kind |-> "slice", start |-> start, stop |-> stop, step |-> step]
Index(i) == [kind |-> "int", start |-> i, stop |-> None, step |-> None]
Ellipsis == [kind |-> "ellipsis", start |-> None, stop |-> None, step |-> None]

Bare(c) == [istuple |-> FALSE, items |-> <<c>>]
Tuple(cs) == [istuple |-> TRUE, items |-> cs]

Ok(v) == [status |-> "ok", value |-> v]
Raise(e) == [status |-> e, value |-> <<>>]

RankError == "IndexError: Index rank is greater than dataset rank"
EllipsisError == "ValueError: Only use of one Ellipsis(...) supported."
StepError == "IndexError: A step of 0 is not valid"
TupleIndexError == "IndexError: tuple index out of range"

(***************************************************************************)
(* DatasetContainer                                                        *)
(***************************************************************************)
\* DatasetContainer.__init__ ; cls is the subclass constructed
DatasetContainer(cls, shape, maxshape) ==
    [cls |-> cls,
     shape |-> shape,
     slice_list |-> [ix \in 1..Len(shape) |-> slice(0, shape[ix], 1)],
     maxshape |-> IF maxshape.none THEN shape
                  ELSE [ix \in 1..Len(maxshape.val) |->
                          IF maxshape.val[ix] = None THEN UNLIMITED
                          ELSE maxshape.val[ix]]]

\* lst[0:n] = vals  (Python slice assignment)
AssignPrefix(lst, n, vals) ==
    vals \o SubSeq(lst, Min(n, Len(lst)) + 1, Len(lst))

\* lst[-b:]  (Python: -0 is 0, so b = 0 is the whole list)
Suffix(lst, b) ==
    IF b = 0 THEN lst ELSE SubSeq(lst, Max(Len(lst) - b, 0) + 1, Len(lst))

\* lst[-b:] = vals  (Python slice assignment)
AssignSuffix(lst, b, vals) ==
    IF b = 0 THEN vals ELSE SubSeq(lst, 1, Max(Len(lst) - b, 0)) \o vals

\* list.index(True) of [ix == Ellipsis for ix in key]; 0-based
EllipsisIdx(k) == CHOOSE i \in 0..(Len(k) - 1) :
    /\ k[i + 1].kind = "ellipsis"
    /\ \A j \in 0..(i - 1) : k[j + 1].kind # "ellipsis"

\* [::-1].index(True) of the same list; 0-based from the back
EllipsisIdxBack(k) == CHOOSE i \in 0..(Len(k) - 1) :
    /\ k[Len(k) - i].kind = "ellipsis"
    /\ \A j \in 0..(i - 1) : k[Len(k) - j].kind # "ellipsis"

\* group.py 98: an integer entry becomes slice(ix, ix + 1, 1)
IntToSlice(c) == IF c.kind = "int" THEN slice(c.start, c.start + 1, 1) ELSE c

\* group.py 101-113: the slice_list after the key has been laid over it
LayKey(slice_list, k) ==
    LET nEllipsis == Cardinality({i \in 1..Len(k) : k[i].kind = "ellipsis"})
    IN  IF nEllipsis > 1 THEN Raise(EllipsisError)
        ELSE IF nEllipsis = 0 THEN Ok(AssignPrefix(slice_list, Len(k), k))
        ELSE IF Len(k) # 1 THEN
            LET ellipsis_idx == EllipsisIdx(k)
                ellipsis_idx_back == EllipsisIdxBack(k)
                front == AssignPrefix(slice_list, ellipsis_idx,
                                      SubSeq(k, 1, ellipsis_idx))
            IN  IF ellipsis_idx_back >= ellipsis_idx
                THEN Ok(AssignSuffix(front, ellipsis_idx_back,
                                     Suffix(k, ellipsis_idx_back)))
                ELSE Ok(front)
        ELSE Ok(slice_list)

\* group.py 116-141: one iteration of the loop over tmp.slice_list, for the
\* entry sl at (1-based) position ix; self.shape[ix] raises past the rank
ParseAxis(shape, ix, sl) ==
    LET step == IF sl.step = None THEN 1 ELSE sl.step
        has == ix <= Len(shape)
        n == IF has THEN shape[ix] ELSE 0
    IN  IF step > 0 THEN
            LET start0 == IF sl.start = None THEN 0 ELSE sl.start
                stopNone == sl.stop = None
                stop0 == IF stopNone THEN n ELSE sl.stop
                start == IF start0 < 0 THEN n + start0 ELSE start0
                stop == IF stop0 < 0 THEN n + stop0 ELSE stop0
            IN  IF ~has /\ (stopNone \/ start0 < 0 \/ stop0 < 0)
                THEN Raise(TupleIndexError)
                ELSE Ok([sl |-> slice(start, stop, step),
                         len |-> IF start < stop
                                 THEN (stop - start + step - 1) \div step
                                 ELSE 0])
        ELSE IF step < 0 THEN
            LET stop0 == IF sl.stop = None THEN 0 ELSE sl.stop
                startNone == sl.start = None
                start0 == IF startNone THEN n ELSE sl.start
                start == IF start0 < 0 THEN n + start0 ELSE start0
                stop == IF stop0 < 0 THEN n + stop0 ELSE stop0
            IN  IF ~has /\ (startNone \/ start0 < 0 \/ stop0 < 0)
                THEN Raise(TupleIndexError)
                ELSE Ok([sl |-> slice(start, stop, step),
                         len |-> IF start > stop
                                 THEN (start - stop - step - 1) \div (-step)
                                 ELSE 0])
        ELSE Raise(StepError)

\* DatasetContainer._parse_slicing ; k is the tuple *key of __getitem__
_parse_slicing(self, k) ==
    LET rank == Len(self.shape)
    IN  IF rank - Len(k) < 0 THEN Raise(RankError)
        ELSE
            LET unwrapped == IF k[1].istuple THEN k[1].items
                             ELSE [i \in 1..Len(k) |-> k[i].items[1]]
                entries == [i \in 1..Len(unwrapped) |-> IntToSlice(unwrapped[i])]
                laid == LayKey(self.slice_list, entries)
            IN  IF laid.status # "ok" THEN Raise(laid.status)
                ELSE
                    LET axes == [ix \in 1..Len(laid.value) |->
                                    ParseAxis(self.shape, ix, laid.value[ix])]
                        bad == {ix \in 1..Len(axes) : axes[ix].status # "ok"}
                    IN  IF bad # {}
                        THEN Raise(axes[CHOOSE ix \in bad :
                                          \A jx \in bad : ix <= jx].status)
                        ELSE Ok([self EXCEPT
                                 !.slice_list = [ix \in 1..Len(axes) |->
                                                    axes[ix].value.sl],
                                 !.shape = [ix \in 1..Len(axes) |->
                                               axes[ix].value.len]])

\* VirtualSource.__getitem__ and VirtualTarget.__getitem__
__getitem__(self, arg) ==
    LET tmp == _parse_slicing(self, <<arg>>)
    IN  IF tmp.status # "ok" THEN tmp
        ELSE IF self.cls = "VirtualTarget"
        THEN Ok([tmp.value EXCEPT !.shape = self.shape])
        ELSE tmp

(***************************************************************************)
(* VirtualMap and VGroup.create_virtual_dataset                            *)
(***************************************************************************)
TypeError == "TypeError: 'NoneType' object is not iterable"
AssignIndexError == "IndexError: list assignment index out of range"
EmptyError == "ValueError: create_virtual_dataset requires at least one virtual map to construct output."

\* (1,) * n ; a tuple times a negative number is the empty tuple
Ones(n) == [i \in 1..n |-> 1]

\* tuple.index(h5s.UNLIMITED), 0-based
UnlimitedIndex(maxshape) == CHOOSE i \in 0..(Len(maxshape) - 1) :
    /\ maxshape[i + 1] = UNLIMITED
    /\ \A j \in 0..(i - 1) : maxshape[j + 1] # UNLIMITED

HasUnlimited(maxshape) == \E i \in 1..Len(maxshape) : maxshape[i] = UNLIMITED

\* group.py 37-43 and 206-215: the count of the hyperslab of container c
count_idx(c) ==
    IF HasUnlimited(c.maxshape)
    THEN [i \in 1..Len(c.slice_list) |->
             IF i = UnlimitedIndex(c.maxshape) + 1 THEN UNLIMITED ELSE 1]
    ELSE Ones(Len(c.slice_list))

\* group.py 184-199: block_shape before the unlimited axis is looked at
PaddedBlockShape(src, target) ==
    LET rank_def == Len(target.shape) - Len(src.shape)
    IN  IF rank_def > 0
        THEN IF Len(src.shape) = 1 THEN Nothing
             ELSE Some(Ones(rank_def) \o src.shape)
        ELSE IF rank_def < 0
        THEN IF Len(target.shape) = 1 THEN Nothing
             ELSE Some(Ones(rank_def) \o target.shape)
        ELSE Some(src.shape)

\* the arguments of a select_hyperslab call
Hyperslab(c, count, block) ==
    [start |-> [i \in 1..Len(c.slice_list) |-> c.slice_list[i].start],
     count |-> count,
     stride |-> [i \in 1..Len(c.slice_list) |-> c.slice_list[i].step],
     block |-> block]

\* group.py 206-213: block_shape with the entry of the unlimited axis of
\* the source set to 1
UnlimitedBlockShape(src, padded) ==
    IF ~HasUnlimited(src.maxshape) THEN Ok(padded)
    ELSE IF UnlimitedIndex(src.maxshape) >= Len(src.slice_list)
    THEN Raise(AssignIndexError)
    ELSE IF padded.none THEN Raise(TypeError)
    ELSE IF UnlimitedIndex(src.maxshape) >= Len(padded.val)
    THEN Raise(AssignIndexError)
    ELSE Ok(Some([padded.val EXCEPT ![UnlimitedIndex(src.maxshape) + 1] = 1]))

\* group.py 184-216: VirtualMap.__init__ once both containers are sliced
MapOf(src, target, dtype, block_shape) ==
    IF block_shape.status # "ok" THEN Raise(block_shape.status)
    ELSE Ok([src |-> src, target |-> target, dtype |-> dtype,
             block_shape |-> block_shape.value,
             src_dspace |-> Hyperslab(src, count_idx(src), block_shape.value)])

\* group.py 181-183: virtual_source[...] and virtual_target[...]
SlicedPair(src, tgt) ==
    IF src.status # "ok" THEN Raise(src.status)
    ELSE IF tgt.status # "ok" THEN Raise(tgt.status)
    ELSE Ok([src |-> src.value, target |-> tgt.value])

MapOfPair(pair, dtype) ==
    IF pair.status # "ok" THEN Raise(pair.status)
    ELSE MapOf(pair.value.src, pair.value.target, dtype,
               UnlimitedBlockShape(pair.value.src,
                   PaddedBlockShape(pair.value.src, pair.value.target)))

\* VirtualMap.__init__
VirtualMap(source, target, dtype) ==
    MapOfPair(SlicedPair(__getitem__(source, Bare(Ellipsis)),
                         __getitem__(target, Bare(Ellipsis))), dtype)

\* VGroup.create_virtual_dataset ; the value lists, per virtual map, the
\* hyperslab selected in the virtual dataspace
create_virtual_dataset(VMlist, fillvalue) ==
    IF VMlist = <<>> THEN Raise(EmptyError)
    ELSE
        LET bad == {i \in 1..Len(VMlist) :
                      /\ HasUnlimited(VMlist[i].target.maxshape)
                      /\ UnlimitedIndex(VMlist[i].target.maxshape)
                            >= Len(VMlist[i].target.slice_list)}
        IN  IF bad # {} THEN Raise(AssignIndexError)
            ELSE Ok([shape |-> VMlist[1].target.shape,
                     maxshape |-> VMlist[1].target.maxshape,
                     fillvalue |-> fillvalue,
                     virtual |-> [i \in 1..Len(VMlist) |->
                                    Hyperslab(VMlist[i].target,
                                              count_idx(VMlist[i].target),
                                              VMlist[i].block_shape)]])

(***************************************************************************)
(* ReshapeVDSGenerator                                                     *)
(***************************************************************************)
FULL_SLICE == None
MismatchError(attribute) == "ValueError: Files have mismatched " \o attribute
ShapeMismatchError == "ValueError: Length of source frames does no match target shape"

Attributes == {"height", "width", "dtype"}

\* ReshapeVDSGenerator.product
RECURSIVE product(_)
product(iterable) ==
    IF iterable = <<>> THEN 1
    ELSE product(SubSeq(iterable, 1, Len(iterable) - 1)) * iterable[Len(iterable)]

\* reshapevdsgenerator.py 130-131: the loop over reversed(dimensions[1:]),
\* rest being the axis lengths not yet visited
RECURSIVE InsertRadices(_, _)
InsertRadices(radices, rest) ==
    IF rest = <<>> THEN radices
    ELSE InsertRadices(<<radices[1] * rest[Len(rest)]>> \o radices,
                       SubSeq(rest, 1, Len(rest) - 1))

\* create_mixed_radix_set over dimensions[:-1] instead of dimensions[1:]
create_mixed_radix_set_leading(dims) ==
    InsertRadices(<<1>>, SubSeq(dims, 1, Len(dims) - 1))

\* ReshapeVDSGenerator.create_mixed_radix_set
create_mixed_radix_set(dims) ==
    InsertRadices(<<1>>, SubSeq(dims, 2, Len(dims)))

\* reshapevdsgenerator.py 165-167: the while loop for one radix; count is
\* what has been added to axis_indices[idx] so far
RECURSIVE Subtract(_, _, _)
Subtract(frame_index, radix, count) ==
    IF frame_index >= radix THEN Subtract(frame_index - radix, radix, count + 1)
    ELSE [frame_index |-> frame_index, count |-> count]

\* reshapevdsgenerator.py 163-167: the loop over enumerate(radices) from
\* position idx (1-based) on
RECURSIVE CountAxes(_, _, _, _)
CountAxes(axis_indices, frame_index, radices, idx) ==
    IF idx > Len(radices) THEN axis_indices
    ELSE CountAxes(
            [axis_indices EXCEPT
                ![idx] = Subtract(frame_index, radices[idx], 0).count],
            Subtract(frame_index, radices[idx], 0).frame_index,
            radices, idx + 1)

\* the inversion of line 174 without its "- 1"
InvertAxis_offbyone(axis_indices, alt, shape, axis) ==
    IF alt[axis] /\ axis_indices[axis - 1] % 2 # 0
    THEN [axis_indices EXCEPT ![axis] = shape[axis] - axis_indices[axis]]
    ELSE axis_indices

\* reshapevdsgenerator.py 171-174: one iteration of the inversion loop, for
\* the (1-based) position axis
InvertAxis(axis_indices, alt, shape, axis) ==
    IF alt[axis] /\ axis_indices[axis - 1] % 2 # 0
    THEN [axis_indices EXCEPT ![axis] = shape[axis] - 1 - axis_indices[axis]]
    ELSE axis_indices

\* reshapevdsgenerator.py 170-174: the inversion loop from position axis on
RECURSIVE InvertAxes(_, _, _, _)
InvertAxes(axis_indices, alt, shape, axis) ==
    IF axis > Len(axis_indices) THEN axis_indices
    ELSE InvertAxes(InvertAxis(axis_indices, alt, shape, axis),
                    alt, shape, axis + 1)

\* ReshapeVDSGenerator.calculate_axis_indices ; dims is self.dimensions and
\* alt is self.alternate
calculate_axis_indices(frame_index, radices, shape, dims, alt) ==
    InvertAxes(CountAxes([i \in 1..Len(dims) |-> 0], frame_index, radices, 1),
               alt, shape, 2)

SourceMeta(frames, height, width, dtype) ==
    [frames |-> frames, height |-> height, width |-> width, dtype |-> dtype]

\* reshapevdsgenerator.py 49-52: the files after the first whose attributes
\* differ from the first file's
Mismatched(fs) ==
    {j \in 2..Len(fs) : \E a \in Attributes : fs[j][a] # fs[1][a]}

\* the last file process_source_datasets reads
LastRead(fs) ==
    IF Mismatched(fs) = {} THEN Len(fs)
    ELSE CHOOSE j \in Mismatched(fs) : \A i \in Mismatched(fs) : j <= i

\* reshapevdsgenerator.py 45-48: total_frames after the files up to n
RECURSIVE TotalFrames(_, _)
TotalFrames(fs, n) ==
    IF n = 0 THEN 0 ELSE TotalFrames(fs, n - 1) + fs[n].frames[1]

\* ReshapeVDSGenerator.process_source_datasets : what it returns or raises
process_source_datasets(fs) ==
    IF Mismatched(fs) # {}
    THEN Raise(MismatchError(CHOOSE a \in Attributes :
                                fs[LastRead(fs)][a] # fs[1][a]))
    ELSE Ok(SourceMeta(fs[1].frames, fs[1].height, fs[1].width, fs[1].dtype))

\* the mapping v_layout[vds_hyperslab] = v_source[idx]
Mapping(vds_hyperslab, idx) == [vds |-> vds_hyperslab, source |-> idx]

(***************************************************************************)
(* SpecSlice: containers are sliced through __getitem__                    *)
(***************************************************************************)
Shapes == SeqsOf(1..MaxAxis, 0, MaxRank)
Classes == {"VirtualSource", "VirtualTarget"}
Containers == {DatasetContainer(cls, shape, Nothing) :
                  cls \in Classes, shape \in Shapes}

Bounds == {None} \cup (-MaxAxis..MaxAxis)
Steps == {None} \cup (-MaxStep..MaxStep)
Slices == {slice(a, b, c) : a \in Bounds, b \in Bounds, c \in Steps}
IndexEntries == {Index(i) : i \in (-MaxAxis)..(MaxAxis - 1)}
                    \cup {Ellipsis, slice(None, None, None)}
Keys == {Bare(c) : c \in Slices \cup IndexEntries}
            \cup {Tuple(cs) : cs \in SeqsOf(IndexEntries, 0, MaxKey)}

NoKey == Tuple(<<>>)
NotCalled == Raise("not called")
NoContainer == DatasetContainer("VirtualSource", <<>>, Nothing)

InitSlice ==
    /\ container \in Containers
    /\ key = NoKey
    /\ sliced = NotCalled
    /\ virtual_source = NoContainer
    /\ virtual_target = NoContainer
    /\ vmap = NotCalled
    /\ dset = NotCalled
    /\ files = <<>>
    /\ dimensions = <<>>
    /\ alternate = Nothing
    /\ total_frames = 0
    /\ source_meta = NotCalled
    /\ v_layout = <<>>
    /\ frame = 0
    /\ raised = "none"
    /\ pc = "idle"

\* container[k], once per container
Slice ==
    /\ sliced = NotCalled
    /\ \E k \in Keys :
          /\ key' = k
          /\ sliced' = __getitem__(container, k)
    /\ UNCHANGED <<container, mapVars, reshapeVars>>

NextSlice == Slice

SpecSlice == InitSlice /\ [][NextSlice]_vars

(***************************************************************************)
(* SpecMap: a VirtualMap is built from a source and a target container and *)
(* handed to create_virtual_dataset                                        *)
(***************************************************************************)
\* the maxshape arguments for a shape: unset, or the shape with any of its
\* axes None
MaxShapes(shape) ==
    {Nothing} \cup
    {Some([i \in 1..Len(shape) |-> IF i \in U THEN None ELSE shape[i]]) :
        U \in SUBSET (1..Len(shape))}

InitMap ==
    /\ \E shape \in Shapes : \E maxshape \in MaxShapes(shape) :
          virtual_source = DatasetContainer("VirtualSource", shape, maxshape)
    /\ \E shape \in Shapes : \E maxshape \in MaxShapes(shape) :
          virtual_target = DatasetContainer("VirtualTarget", shape, maxshape)
    /\ vmap = NotCalled
    /\ dset = NotCalled
    /\ container = NoContainer
    /\ key = NoKey
    /\ sliced = NotCalled
    /\ files = <<>>
    /\ dimensions = <<>>
    /\ alternate = Nothing
    /\ total_frames = 0
    /\ source_meta = NotCalled
    /\ v_layout = <<>>
    /\ frame = 0
    /\ raised = "none"
    /\ pc = "idle"

\* VirtualMap(virtual_source, virtual_target, dtype)
NewVirtualMap ==
    /\ vmap = NotCalled
    /\ vmap' = VirtualMap(virtual_source, virtual_target, "uint16")
    /\ UNCHANGED <<virtual_source, virtual_target, dset, sliceVars, reshapeVars>>

\* create_virtual_dataset with no map, the map or the map twice
NewVirtualDataset ==
    /\ vmap # NotCalled
    /\ dset = NotCalled
    /\ \E VMlist \in {<<>>} \cup (IF vmap.status = "ok"
                                  THEN {<<vmap.value>>, <<vmap.value, vmap.value>>}
                                  ELSE {}) :
          dset' = create_virtual_dataset(VMlist, 0)
    /\ UNCHANGED <<virtual_source, virtual_target, vmap, sliceVars, reshapeVars>>

NextMap == NewVirtualMap \/ NewVirtualDataset

SpecMap == InitMap /\ [][NextMap]_vars

(***************************************************************************)
(* SpecReshape: the generator reads the metadata of its files and builds   *)
(* the virtual layout                                                      *)
(***************************************************************************)
Dimensions == SeqsOf(1..MaxDim, 1, MaxDims)

\* self.alternate: None, or one flag per axis
Alternates(dims) == {Nothing} \cup {Some(a) : a \in [1..Len(dims) -> BOOLEAN]}

\* what grab_metadata returns for one file
Heights == {1, 2}
Metadata(dims) ==
    {[frames |-> <<n>>, height |-> h, width |-> 2, dtype |-> "uint16"] :
        n \in (1..MaxFrames) \cup {product(dims)}, h \in Heights}

\* the generator before its first call, with the given raw files
InitGenerator(fileLists) ==
    /\ files \in fileLists
    /\ total_frames = 0
    /\ source_meta = NotCalled
    /\ v_layout = <<>>
    /\ frame = 0
    /\ raised = "none"
    /\ pc = "start"
    /\ container = NoContainer
    /\ key = NoKey
    /\ sliced = NotCalled
    /\ virtual_source = NoContainer
    /\ virtual_target = NoContainer
    /\ vmap = NotCalled
    /\ dset = NotCalled

\* any raw files
InitReshape ==
    /\ dimensions \in Dimensions
    /\ alternate \in Alternates(dimensions)
    /\ InitGenerator(SeqsOf(Metadata(dimensions), 1, MaxFiles))

\* one raw file (reshapevdsgenerator.py 34)
InitLayout ==
    /\ dimensions \in Dimensions
    /\ alternate \in Alternates(dimensions)
    /\ InitGenerator(SeqsOf(Metadata(dimensions), 1, 1))

\* source = self.process_source_datasets()
ProcessSourceDatasets ==
    /\ pc = "start"
    /\ total_frames' = TotalFrames(files, LastRead(files))
    /\ source_meta' = process_source_datasets(files)
    /\ raised' = IF source_meta'.status = "ok" THEN "none" ELSE source_meta'.status
    /\ pc' = IF source_meta'.status = "ok" THEN "processed" ELSE "failed"
    /\ UNCHANGED <<files, dimensions, alternate, v_layout, frame,
                   sliceVars, mapVars>>

\* self.create_virtual_layout(source), reshapevdsgenerator.py 75-82:
\* the frame count does not match
CreateVirtualLayoutRaises ==
    /\ pc = "processed"
    /\ source_meta.value.frames[1] # product(dimensions)
    /\ raised' = ShapeMismatchError
    /\ pc' = "failed"
    /\ UNCHANGED <<files, dimensions, alternate, total_frames, source_meta,
                   v_layout, frame, sliceVars, mapVars>>

\* self.create_virtual_layout(source), reshapevdsgenerator.py 98-101:
\* v_layout[...] = v_source
CreateVirtualLayoutBulk ==
    /\ pc = "processed"
    /\ source_meta.value.frames[1] = product(dimensions)
    /\ alternate.none
    /\ v_layout' = <<Mapping(<<Ellipsis>>, Ellipsis)>>
    /\ pc' = "done"
    /\ UNCHANGED <<files, dimensions, alternate, total_frames, source_meta,
                   frame, raised, sliceVars, mapVars>>

\* self.create_virtual_layout(source), reshapevdsgenerator.py 95-97 and
\* 104-107: create_alternating_virtual_layout is entered
CreateAlternatingVirtualLayout ==
    /\ pc = "processed"
    /\ source_meta.value.frames[1] = product(dimensions)
    /\ ~alternate.none
    /\ frame' = 0
    /\ pc' = "loop"
    /\ UNCHANGED <<files, dimensions, alternate, total_frames, source_meta,
                   v_layout, raised, sliceVars, mapVars>>

\* vds_shape of create_virtual_layout
VdsShape == dimensions \o <<source_meta.value.height, source_meta.value.width>>

\* reshapevdsgenerator.py 107-114: one iteration of the frame loop
MapFrame ==
    /\ pc = "loop"
    /\ frame < product(dimensions)
    /\ v_layout' = Append(v_layout,
          Mapping(calculate_axis_indices(frame, create_mixed_radix_set(dimensions),
                                         VdsShape, dimensions, alternate.val)
                    \o <<FULL_SLICE, FULL_SLICE>>,
                  frame))
    /\ frame' = frame + 1
    /\ UNCHANGED <<files, dimensions, alternate, total_frames, source_meta,
                   raised, pc, sliceVars, mapVars>>

\* reshapevdsgenerator.py 121 and 101: the frame loop is over
ReturnLayout ==
    /\ pc = "loop"
    /\ frame = product(dimensions)
    /\ pc' = "done"
    /\ UNCHANGED <<files, dimensions, alternate, total_frames, source_meta,
                   v_layout, frame, raised, sliceVars, mapVars>>

NextReshape ==
    \/ ProcessSourceDatasets
    \/ CreateVirtualLayoutRaises
    \/ CreateVirtualLayoutBulk
    \/ CreateAlternatingVirtualLayout
    \/ MapFrame
    \/ ReturnLayout

SpecReshape == InitReshape /\ [][NextReshape]_vars

SpecLayout == InitLayout /\ [][NextReshape]_vars

(***************************************************************************)
(* Properties of slicing                                                   *)
(***************************************************************************)
\* the (lo, hi, step) Python's slice.indices(n) resolves a slice to
PyIndices(n, sl) ==
    LET step == IF sl.step = None THEN 1 ELSE sl.step
        least == IF step > 0 THEN 0 ELSE -1
        most == IF step > 0 THEN n ELSE n - 1
        clamp(v, dflt) == IF v = None THEN dflt
                          ELSE IF v < 0 THEN Max(v + n, least)
                          ELSE Min(v, most)
    IN  [lo |-> clamp(sl.start, IF step > 0 THEN 0 ELSE n - 1),
         hi |-> clamp(sl.stop, IF step > 0 THEN n ELSE -1),
         step |-> step]

\* the indices range(n)[sl] enumerates, one by one
PyEnumerate(n, sl) ==
    LET r == PyIndices(n, sl)
    IN  {j \in 0..(n - 1) : \E m \in 0..n :
            /\ j = r.lo + m * r.step
            /\ r.step > 0 => j < r.hi
            /\ r.step < 0 => j > r.hi}

InUnit(v, n) == v = None \/ (-n <= v /\ v <= n)

\* the last call sliced axis 0 of a VirtualSource with one slice of C2's domain
SlicedByOneSlice ==
    /\ sliced # NotCalled
    /\ container.cls = "VirtualSource"
    /\ Len(container.shape) >= 1
    /\ ~key.istuple
    /\ key.items[1].kind = "slice"
    /\ key.items[1].step \notin {None, 0}
    /\ InUnit(key.items[1].start, container.shape[1])
    /\ InUnit(key.items[1].stop, container.shape[1])

\* C2: for every axis length n and every slice with a non-zero step and start
\* and stop unset or in [-n, n], the length _parse_slicing computes equals the
\* number of indices Python slicing of range(n) enumerates.
C2_LengthMatchesEnumeration ==
    SlicedByOneSlice =>
        /\ sliced.status = "ok"
        /\ sliced.value.shape[1] =
              Cardinality(PyEnumerate(container.shape[1], key.items[1]))

\* what C5 says an entry of a key resolves to on an axis of length n
Resolved(c, n) ==
    IF c.kind = "int"
    THEN LET i == IF c.start >= 0 THEN c.start ELSE c.start + n
         IN  slice(i, i + 1, 1)
    ELSE slice(0, n, 1)

IsPlainEntry(c, n) ==
    \/ c.kind = "int" /\ 0 <= c.start /\ c.start < n
    \/ c = slice(None, None, None)

NumEllipsis(cs) == Cardinality({i \in 1..Len(cs) : cs[i].kind = "ellipsis"})

\* the last call used a tuple key with one ellipsis, a entries before it and
\* b after it, a + b <= rank, every entry a full slice or an index that is
\* non-negative and within its axis
SlicedAroundEllipsis(a, b) ==
    /\ sliced # NotCalled
    /\ key.istuple
    /\ Len(key.items) = a + b + 1
    /\ key.items[a + 1].kind = "ellipsis"
    /\ NumEllipsis(key.items) = 1
    /\ Len(container.shape) >= 1
    /\ a + b <= Len(container.shape)
    /\ \A j \in 1..a : IsPlainEntry(key.items[j], container.shape[j])
    /\ \A j \in 1..b :
          IsPlainEntry(key.items[a + 1 + j],
                       container.shape[Len(container.shape) - b + j])

\* C3: with one ellipsis, a entries before it and b after it, the first a axes
\* take the leading entries, the last b axes take the trailing entries and
\* the axes in between stay full slices, for every a and b.
C3_EllipsisFillsBothEnds ==
    \A a \in 0..MaxKey, b \in 0..MaxKey :
        SlicedAroundEllipsis(a, b) =>
            LET r == Len(container.shape)
            IN  /\ sliced.status = "ok"
                /\ Len(sliced.value.slice_list) = r
                /\ \A j \in 1..r :
                      sliced.value.slice_list[j] =
                        IF j <= a
                        THEN Resolved(key.items[j], container.shape[j])
                        ELSE IF j > r - b
                        THEN Resolved(key.items[a + 1 + j - (r - b)],
                                      container.shape[j])
                        ELSE slice(0, container.shape[j], 1)

\* C4: a key with more entries than the rank always fails with the rank
\* error, and no returned descriptor has more slice entries than axes.
C4_LongKeyRaisesRankError ==
    /\ (sliced # NotCalled /\ Len(key.items) > Len(container.shape))
          => sliced.status = RankError
    /\ sliced.status = "ok"
          => Len(sliced.value.slice_list) <= Len(container.shape)

\* the last call had the index i, -n <= i < n, at position k of a key without
\* ellipsis that is no longer than the rank
SlicedByIndexAt(k) ==
    /\ sliced # NotCalled
    /\ k <= Len(key.items)
    /\ Len(key.items) <= Len(container.shape)
    /\ NumEllipsis(key.items) = 0
    /\ key.items[k].kind = "int"
    /\ -container.shape[k] <= key.items[k].start
    /\ key.items[k].start < container.shape[k]

\* C5: an integer index i, -n <= i < n, at position k keeps axis k with slice
\* state (i', i' + 1, 1), i' = i or i + n, and a VirtualSource gets extent 1
\* on axis k.
C5_IndexKeepsAxis ==
    \A k \in 1..MaxKey :
        SlicedByIndexAt(k) =>
            /\ sliced.status = "ok"
            /\ Len(sliced.value.shape) = Len(container.shape)
            /\ sliced.value.slice_list[k] =
                  Resolved(key.items[k], container.shape[k])
            /\ container.cls = "VirtualSource" => sliced.value.shape[k] = 1

(***************************************************************************)
(* Properties of virtual maps                                              *)
(***************************************************************************)
UnlimitedAxes(c) == {i \in 1..Len(c.maxshape) : c.maxshape[i] = UNLIMITED}

\* a map was built from two containers without unbounded axis, neither of
\* rank 1 (group.py 188 and 194 leave block_shape unset for rank 1)
MapOfBounded ==
    /\ vmap.status = "ok"
    /\ Len(vmap.value.src.shape) # 1
    /\ Len(vmap.value.target.shape) # 1
    /\ UnlimitedAxes(vmap.value.src) = {}
    /\ UnlimitedAxes(vmap.value.target) = {}

\* C8: without unbounded axis, block_shape has rank max(rank(source),
\* rank(target)) and, when the ranks differ, is the shape of the shorter
\* descriptor left-padded with 1, whichever side is the shorter.
C8_BlockShapePadded ==
    MapOfBounded =>
        LET rs == Len(vmap.value.src.shape)
            rt == Len(vmap.value.target.shape)
        IN  /\ ~vmap.value.block_shape.none
            /\ Len(vmap.value.block_shape.val) = Max(rs, rt)
            /\ rs < rt => vmap.value.block_shape.val =
                             Ones(rt - rs) \o vmap.value.src.shape
            /\ rt < rs => vmap.value.block_shape.val =
                             Ones(rs - rt) \o vmap.value.target.shape

\* the hyperslab h of container c has count unbounded on the one unbounded
\* axis of c, count 1 elsewhere, and block 1 on that axis
UnboundedSelection(c, h) ==
    \A j \in UnlimitedAxes(c) :
        /\ Len(h.count) = Len(c.maxshape)
        /\ \A i \in 1..Len(h.count) :
              h.count[i] = IF i = j THEN UNLIMITED ELSE 1
        /\ ~h.block.none
        /\ j <= Len(h.block.val)
        /\ h.block.val[j] = 1

\* a map was built and its block_shape is set
MapWithBlock == vmap.status = "ok" /\ ~vmap.value.block_shape.none

\* C9: a descriptor with exactly one unbounded axis gets count unbounded on
\* exactly that axis and block 1 on it, on the source side (VirtualMap) and
\* on the target side (create_virtual_dataset).
C9_UnboundedAxisCollapsed ==
    /\ (MapWithBlock /\ Cardinality(UnlimitedAxes(vmap.value.src)) = 1)
          => UnboundedSelection(vmap.value.src, vmap.value.src_dspace)
    /\ (MapWithBlock /\ dset.status = "ok"
            /\ Cardinality(UnlimitedAxes(vmap.value.target)) = 1)
          => \A i \in 1..Len(dset.value.virtual) :
                UnboundedSelection(vmap.value.target, dset.value.virtual[i])

(***************************************************************************)
(* Properties of the reshaping generator                                   *)
(***************************************************************************)
RECURSIVE SumFrames(_)
SumFrames(fs) ==
    IF fs = <<>> THEN 0
    ELSE fs[1].frames[1] + SumFrames(SubSeq(fs, 2, Len(fs)))

\* both calls have run on files that agree on every attribute but frames
LayoutAttempted ==
    /\ pc \in {"failed", "loop", "done"}
    /\ \A j \in 1..Len(files) : \A a \in Attributes : files[j][a] = files[1][a]

\* C1: with all other attributes identical, process_source_datasets followed
\* by create_virtual_layout succeeds exactly when the sum of the frame counts
\* of all files equals product(dimensions) and raises the shape mismatch
\* exactly when it does not.
C1_SumOfFramesDecides ==
    LayoutAttempted =>
        /\ raised = "none" <=> SumFrames(files) = product(dimensions)
        /\ raised = ShapeMismatchError <=> SumFrames(files) # product(dimensions)

\* the product of the axis lengths after axis k
RadixOf(dims, k) == product(SubSeq(dims, k + 1, Len(dims)))

\* the axis indices of the mapping of source frame i (0-based)
AxisIndicesOf(i) == SubSeq(v_layout[i + 1].vds, 1, Len(dimensions))

RECURSIVE Weighted(_, _, _)
Weighted(c, dims, k) ==
    IF k > Len(c) THEN 0 ELSE c[k] * RadixOf(dims, k) + Weighted(c, dims, k + 1)

\* the frame loop runs or has run
InFrameLoop == pc \in {"loop", "done"} /\ ~alternate.none

NoAxisAlternates == \A k \in 1..Len(alternate.val) : ~alternate.val[k]

\* C6: with no axis alternating, the radices are the products of the axis
\* lengths to the right, and the coordinates c of frame i satisfy
\* 0 <= c[k] < dimensions[k] and sum of c[k] * radix[k] = i.
C6_MixedRadixRoundTrip ==
    (InFrameLoop /\ NoAxisAlternates) =>
        /\ \A k \in 1..Len(dimensions) :
              create_mixed_radix_set(dimensions)[k] = RadixOf(dimensions, k)
        /\ Len(create_mixed_radix_set(dimensions)) = Len(dimensions)
        /\ \A i \in 0..(Len(v_layout) - 1) :
              /\ v_layout[i + 1].source = i
              /\ \A k \in 1..Len(dimensions) :
                    /\ 0 <= AxisIndicesOf(i)[k]
                    /\ AxisIndicesOf(i)[k] < dimensions[k]
              /\ Weighted(AxisIndicesOf(i), dimensions, 1) = i

\* every frame of a dataset of at least two axes, none alternating, is mapped
C6_Witness ==
    /\ pc = "done"
    /\ ~alternate.none
    /\ NoAxisAlternates
    /\ Len(dimensions) = MaxDims
    /\ \A k \in 1..Len(dimensions) : dimensions[k] >= 2
    /\ Len(v_layout) = product(dimensions)

\* the raw (pre-inversion) mixed-radix coordinate of frame i on axis k
Raw(i, k) ==
    IF k = 1 THEN i \div RadixOf(dimensions, 1)
    ELSE (i \div RadixOf(dimensions, k)) % dimensions[k]

\* C7: the coordinate on axis k >= 1 (0-based) is axisLength - 1 - raw exactly
\* when alternate[k] is set and the raw coordinate of the parent axis is odd,
\* and raw otherwise; the outermost axis is never inverted.
C7_InversionFollowsRawParent ==
    InFrameLoop =>
        \A i \in 0..(Len(v_layout) - 1) : \A k \in 1..Len(dimensions) :
            AxisIndicesOf(i)[k] =
                IF k >= 2 /\ alternate.val[k] /\ Raw(i, k - 1) % 2 = 1
                THEN dimensions[k] - 1 - Raw(i, k)
                ELSE Raw(i, k)

\* the coordinates of the full grid of the reshaped axes
Grid == {c \in [1..Len(dimensions) -> 0..(MaxDim - 1)] :
            \A k \in 1..Len(dimensions) : c[k] < dimensions[k]}

\* the axis indices of all mappings made so far, by frame index + 1
AllAxisIndices ==
    [n \in 1..Len(v_layout) |-> SubSeq(v_layout[n].vds, 1, Len(dimensions))]

\* C10: the frame loop maps the frame indices one-to-one onto the coordinate
\* grid: every coordinate is within the axis, no two frames get the same
\* coordinates and, once the loop is over, every grid coordinate has
\* exactly one frame.
C10_FramesCoverGridOnce ==
    InFrameLoop =>
        LET coords == AllAxisIndices
        IN  /\ \A n \in 1..Len(coords) : \A k \in 1..Len(dimensions) :
                  0 <= coords[n][k] /\ coords[n][k] < dimensions[k]
            /\ Cardinality({coords[n] : n \in 1..Len(coords)}) = Len(coords)
            /\ pc = "done" =>
                  /\ Len(coords) = product(dimensions)
                  /\ \A c \in Grid :
                        Cardinality({n \in 1..Len(coords) : coords[n] = c}) = 1

\* the loop is over for a dataset in which an inner axis was inverted
C10_Witness ==
    /\ pc = "done"
    /\ ~alternate.none
    /\ Len(dimensions) = MaxDims
    /\ \A k \in 2..Len(dimensions) : alternate.val[k] /\ dimensions[k] >= 2
    /\ dimensions[1] >= 2
    /\ \E i \in 0..(Len(v_layout) - 1) : \E k \in 2..Len(dimensions) :
          AxisIndicesOf(i)[k] # Raw(i, k)

====
